---- MODULE Spec2Model ----
(***************************************************************************)
(* Model of chronogen.core: the symbolic format parser parse_format_spec,  *)
(* configuration normalisation (DateGeneratorConfig.normalized), and the   *)
(* lazy date generator (DateGenerator.generate, _iter_ymd, _format_spec).  *)
(*                                                                         *)
(* Python strings are sequences of one-character strings.  An Optional     *)
(* value is a sequence of length at most one: None is <<>> and Some(x) is  *)
(* <<x>>.                                                                  *)
(***************************************************************************)
EXTENDS Integers, Sequences, FiniteSets, TLC

VARIABLES
    spec_in,    \* argument handed to a direct parse_format_spec call
    parsed,     \* Optional outcome of that call
    platform,   \* C library behind strftime: "glibc" or "msvcrt"
    cfg,        \* cfg[g]: the fields the caller passes to DateGenerator g
    route,      \* route[g]: how they are passed: "kwargs", "config" or "both"
    caller,     \* caller[g]: the caller's own objects (lists, config) as they are now
    obj,        \* obj[g]: the DateGenerator object (status, config, _spec_tokens)
    owner,      \* owner[i]: the DateGenerator whose generate() made iterator i
    iter,       \* iter[i]: a generator-iterator returned by obj[owner[i]].generate()
    out,        \* out[i]: values the consumer has pulled from iter[i]
    last        \* last[g]: Optional outcome of the latest generate_to_list() / write() on obj[g]

vars == <<spec_in, parsed, platform, cfg, route, caller, obj, owner, iter, out, last>>

----------------------------------------------------------------------------
(* Bounds *)

MaxSpecLen == 8     \* longest format string over {Y, M, D}
MaxMixedLen == 4    \* longest format string over the full alphabet
MaxSpan == 1        \* largest end_year - start_year

----------------------------------------------------------------------------
(* Optional values and generic sequence helpers *)

None == <<>>
Some(x) == <<x>>
IsNone(o) == o = <<>>
Get(o) == o[1]

SeqsUpTo(S, n) == UNION {[1..k -> S] : k \in 0..n}

Range(s) == {s[i] : i \in DOMAIN s}

Reverse(s) == [i \in 1..Len(s) |-> s[Len(s) + 1 - i]]

RECURSIVE Flatten(_)
Flatten(ss) == IF ss = <<>> THEN <<>> ELSE Head(ss) \o Flatten(Tail(ss))

Repeat(ch, n) == [i \in 1..n |-> ch]

----------------------------------------------------------------------------
(* str.upper, str.lower, str.strip, str.join *)

LowerLetters == <<"a", "b", "c", "d", "e", "f", "g", "h", "i", "j", "k", "l", "m",
                  "n", "o", "p", "q", "r", "s", "t", "u", "v", "w", "x", "y", "z">>
UpperLetters == <<"A", "B", "C", "D", "E", "F", "G", "H", "I", "J", "K", "L", "M",
                  "N", "O", "P", "Q", "R", "S", "T", "U", "V", "W", "X", "Y", "Z">>

Whitespace == {" "}

upper_char(ch) ==
    IF \E i \in DOMAIN LowerLetters : LowerLetters[i] = ch
    THEN UpperLetters[CHOOSE i \in DOMAIN LowerLetters : LowerLetters[i] = ch]
    ELSE ch

lower_char(ch) ==
    IF \E i \in DOMAIN UpperLetters : UpperLetters[i] = ch
    THEN LowerLetters[CHOOSE i \in DOMAIN UpperLetters : UpperLetters[i] = ch]
    ELSE ch

str_upper(s) == [i \in DOMAIN s |-> upper_char(s[i])]

str_lower(s) == [i \in DOMAIN s |-> lower_char(s[i])]

\* at most one blank removed from each end
str_strip_once(s) ==
    LET lo == IF s # <<>> /\ s[1] \in Whitespace THEN 2 ELSE 1
        hi == IF Len(s) >= lo /\ s[Len(s)] \in Whitespace THEN Len(s) - 1 ELSE Len(s)
    IN  SubSeq(s, lo, hi)

str_strip(s) ==
    LET keep == {i \in DOMAIN s : s[i] \notin Whitespace}
    IN  IF keep = {} THEN <<>>
        ELSE LET lo == CHOOSE i \in keep : \A j \in keep : i <= j
                 hi == CHOOSE i \in keep : \A j \in keep : j <= i
             IN  SubSeq(s, lo, hi)

RECURSIVE str_join(_, _)
str_join(sep, parts) ==
    IF parts = <<>> THEN <<>>
    ELSE IF Len(parts) = 1 THEN parts[1]
    ELSE parts[1] \o sep \o str_join(sep, Tail(parts))

----------------------------------------------------------------------------
(* parse_format_spec *)

Raise(kind) == [ok |-> FALSE, err |-> kind, tokens |-> <<>>]
Return(toks) == [ok |-> TRUE, err |-> "", tokens |-> toks]

\* the scan of lines 55-65: contiguous identical characters, as <<letter, count>>
RECURSIVE scan_groups(_, _, _, _)
scan_groups(rest, current, count, groups) ==
    IF rest = <<>> THEN Append(groups, <<current, count>>)
    ELSE IF Head(rest) = current
         THEN scan_groups(Tail(rest), current, count + 1, groups)
         ELSE scan_groups(Tail(rest), Head(rest), 1, Append(groups, <<current, count>>))

\* group_tokens without the check that a letter was already seen
RECURSIVE group_tokens_unseen(_, _, _)
group_tokens_unseen(groups, seen, tokens) ==
    IF groups = <<>> THEN Return(tokens)
    ELSE LET letter == Head(groups)[1]
             length == Head(groups)[2]
         IN  IF letter = "Y"
                  THEN IF length \notin {2, 4} THEN Raise("DateGeneratorError")
                       ELSE group_tokens_unseen(Tail(groups), seen \cup {letter},
                                Append(tokens, IF length = 4 THEN "Y4" ELSE "Y2"))
             ELSE IF letter = "M"
                  THEN IF length # 2 THEN Raise("DateGeneratorError")
                       ELSE group_tokens_unseen(Tail(groups), seen \cup {letter}, Append(tokens, "M"))
             ELSE IF letter = "D"
                  THEN IF length # 2 THEN Raise("DateGeneratorError")
                       ELSE group_tokens_unseen(Tail(groups), seen \cup {letter}, Append(tokens, "D"))
             ELSE group_tokens_unseen(Tail(groups), seen \cup {letter}, tokens)

\* the loop of lines 67-84 over the groups
RECURSIVE group_tokens(_, _, _)
group_tokens(groups, seen, tokens) ==
    IF groups = <<>> THEN Return(tokens)
    ELSE LET letter == Head(groups)[1]
             length == Head(groups)[2]
         IN  IF letter \in seen THEN Raise("DateGeneratorError")
             ELSE IF letter = "Y"
                  THEN IF length \notin {2, 4} THEN Raise("DateGeneratorError")
                       ELSE group_tokens(Tail(groups), seen \cup {letter},
                                Append(tokens, IF length = 4 THEN "Y4" ELSE "Y2"))
             ELSE IF letter = "M"
                  THEN IF length # 2 THEN Raise("DateGeneratorError")
                       ELSE group_tokens(Tail(groups), seen \cup {letter}, Append(tokens, "M"))
             ELSE IF letter = "D"
                  THEN IF length # 2 THEN Raise("DateGeneratorError")
                       ELSE group_tokens(Tail(groups), seen \cup {letter}, Append(tokens, "D"))
             ELSE group_tokens(Tail(groups), seen \cup {letter}, tokens)

parse_format_spec(spec) ==
    IF spec = <<>> THEN Raise("DateGeneratorError")
    ELSE LET text == str_strip(str_upper(spec))
             invalid == Range(text) \ {"Y", "M", "D"}
         IN  IF invalid # {} THEN Raise("DateGeneratorError")
             ELSE IF text = <<>> THEN Raise("IndexError")   \* text[0] on an empty string
             ELSE LET r == group_tokens(scan_groups(Tail(text), text[1], 1, <<>>), {}, <<>>)
                  IN  IF r.ok /\ r.tokens = <<>> THEN Raise("DateGeneratorError") ELSE r

----------------------------------------------------------------------------
(* Library functions the core calls: calendar.monthrange, datetime.date,    *)
(* the "0Nd" format specification and strftime                              *)

MINYEAR == 1
MAXYEAR == 9999

isleap(year) == year % 4 = 0 /\ (year % 100 # 0 \/ year % 400 = 0)

mdays == <<31, 28, 31, 30, 31, 30, 31, 31, 30, 31, 30, 31>>

\* calendar.monthrange(year, month)[1]; defined for every integer year
monthrange(year, month) ==
    mdays[month] + (IF month = 2 /\ isleap(year) THEN 1 ELSE 0)

\* date(year, month, day) raises ValueError outside MINYEAR..MAXYEAR or for an
\* impossible day; TRUE when the constructor succeeds
date_ok(year, month, day) ==
    /\ MINYEAR <= year /\ year <= MAXYEAR
    /\ month \in 1..12
    /\ 1 <= day /\ day <= monthrange(year, month)

Digits == <<"0", "1", "2", "3", "4", "5", "6", "7", "8", "9">>

RECURSIVE decimal(_)
decimal(n) ==
    IF n < 10 THEN <<Digits[n + 1]>> ELSE decimal(n \div 10) \o <<Digits[(n % 10) + 1]>>

\* f"{n:0{width}d}": sign-aware zero padding, the sign counts towards the width
format_0d(n, width) ==
    LET sign == IF n < 0 THEN <<"-">> ELSE <<>>
        digs == decimal(IF n < 0 THEN -n ELSE n)
        pad  == width - Len(sign) - Len(digs)
    IN  sign \o Repeat("0", IF pad > 0 THEN pad ELSE 0) \o digs

month_abbr ==
    << <<"J","a","n">>, <<"F","e","b">>, <<"M","a","r">>, <<"A","p","r">>,
       <<"M","a","y">>, <<"J","u","n">>, <<"J","u","l">>, <<"A","u","g">>,
       <<"S","e","p">>, <<"O","c","t">>, <<"N","o","v">>, <<"D","e","c">> >>

\* A strftime pattern is a sequence of items: a directive ("%d", "%m", "%b",
\* "%y") or a literal character.  "%Q" is a directive no C library defines:
\* glibc copies it to the output, the Windows runtime makes Python raise
\* ValueError.
Directives == {"%d", "%m", "%b", "%y", "%Q"}

strftime_item(item, year, month, day) ==
    CASE item = "%d" -> format_0d(day, 2)
      [] item = "%m" -> format_0d(month, 2)
      [] item = "%y" -> format_0d(year % 100, 2)
      [] item = "%b" -> month_abbr[month]
      [] item = "%Q" -> <<"%", "Q">>
      [] OTHER -> <<item>>

strftime_ok(pattern, plat) == ~(plat = "msvcrt" /\ "%Q" \in Range(pattern))

strftime(pattern, year, month, day) ==
    Flatten([i \in DOMAIN pattern |-> strftime_item(pattern[i], year, month, day)])

----------------------------------------------------------------------------
(* DateGeneratorConfig *)

S_lower == <<"l", "o", "w", "e", "r">>
S_upper == <<"u", "p", "p", "e", "r">>
DefaultFormat == <<"Y", "Y", "Y", "Y", "M", "M", "D", "D">>

RECURSIVE dedupe(_, _)
dedupe(values, normalized) ==
    IF values = <<>> THEN normalized
    ELSE dedupe(Tail(values),
                IF Head(values) \in Range(normalized) THEN normalized
                ELSE Append(normalized, Head(values)))

RECURSIVE sorted(_)
sorted(values) ==
    IF values = <<>> THEN <<>>
    ELSE LET i == CHOOSE i \in DOMAIN values : \A j \in DOMAIN values : values[i] <= values[j]
         IN  <<values[i]>> \o sorted([k \in 1..(Len(values) - 1) |->
                                        IF k < i THEN values[k] ELSE values[k + 1]])

\* the values kept in the order of their first occurrence
_normalize_int_sequence_unsorted(values, minimum, maximum) ==
    IF IsNone(values) THEN [ok |-> TRUE, value |-> None]
    ELSE IF \E i \in DOMAIN Get(values) : ~(minimum <= Get(values)[i] /\ Get(values)[i] <= maximum)
         THEN [ok |-> FALSE, value |-> None]
         ELSE [ok |-> TRUE, value |-> Some(dedupe(Get(values), <<>>))]

\* the range check without its lower limit
_normalize_int_sequence_no_minimum(values, minimum, maximum) ==
    IF IsNone(values) THEN [ok |-> TRUE, value |-> None]
    ELSE IF \E i \in DOMAIN Get(values) : ~(Get(values)[i] <= maximum)
         THEN [ok |-> FALSE, value |-> None]
         ELSE [ok |-> TRUE, value |-> Some(sorted(dedupe(Get(values), <<>>)))]

\* _normalize_int_sequence: [ok, value]; not ok is DateGeneratorError
_normalize_int_sequence(values, minimum, maximum) ==
    IF IsNone(values) THEN [ok |-> TRUE, value |-> None]
    ELSE IF \E i \in DOMAIN Get(values) : ~(minimum <= Get(values)[i] /\ Get(values)[i] <= maximum)
         THEN [ok |-> FALSE, value |-> None]
         ELSE [ok |-> TRUE, value |-> Some(sorted(dedupe(Get(values), <<>>)))]

\* _validate_pattern: TRUE when it returns, FALSE when it raises DateGeneratorError
_validate_pattern(pattern, plat) == strftime_ok(pattern, plat)

\* Python truthiness of an Optional[str] / Optional[tuple]
Truthy(o) == ~IsNone(o) /\ Get(o) # <<>>

NoConfig == [start_year |-> 0, end_year |-> 0, format |-> <<>>, separator |-> <<>>,
             custom_pattern |-> None, months |-> None, days |-> None,
             prefix |-> <<>>, suffix |-> <<>>, case |-> None, reverse |-> FALSE]

ConfigError == [ok |-> FALSE, err |-> "DateGeneratorError", config |-> NoConfig]

\* the range check with the comparison off by one
range_invalid_strict(c) == c.start_year >= c.end_year

\* line 110: if self.start_year > self.end_year
range_invalid(c) == c.start_year > c.end_year

\* the format compiled at construction whether or not a pattern is given
normalized_format_always_parsed(c, plat) ==
    IF range_invalid(c) THEN ConfigError
    ELSE IF Truthy(c.case) /\ str_lower(Get(c.case)) \notin {S_lower, S_upper} THEN ConfigError
    ELSE LET case_normalized == IF Truthy(c.case) THEN Some(str_lower(Get(c.case))) ELSE None
             months == _normalize_int_sequence(c.months, 1, 12)
             days == _normalize_int_sequence(c.days, 1, 31)
             format_normalized == IF c.format # <<>> THEN str_strip(str_upper(c.format)) ELSE <<>>
             format_used == IF format_normalized # <<>> THEN format_normalized ELSE DefaultFormat
         IN  IF ~months.ok THEN ConfigError
             ELSE IF ~days.ok THEN ConfigError
             ELSE IF Truthy(c.custom_pattern) /\ ~_validate_pattern(Get(c.custom_pattern), plat)
                  THEN ConfigError
             ELSE IF ~parse_format_spec(format_used).ok
                  THEN [ok |-> FALSE, err |-> parse_format_spec(format_used).err, config |-> NoConfig]
             ELSE [ok |-> TRUE, err |-> "",
                   config |-> [start_year |-> c.start_year, end_year |-> c.end_year,
                               format |-> format_used, separator |-> c.separator,
                               custom_pattern |-> c.custom_pattern,
                               months |-> months.value, days |-> days.value,
                               prefix |-> c.prefix, suffix |-> c.suffix,
                               case |-> case_normalized, reverse |-> c.reverse]]

\* DateGeneratorConfig.normalized
normalized(c, plat) ==
    IF range_invalid(c) THEN ConfigError
    ELSE IF Truthy(c.case) /\ str_lower(Get(c.case)) \notin {S_lower, S_upper} THEN ConfigError
    ELSE LET case_normalized == IF Truthy(c.case) THEN Some(str_lower(Get(c.case))) ELSE None
             months == _normalize_int_sequence(c.months, 1, 12)
             days == _normalize_int_sequence(c.days, 1, 31)
             format_normalized == IF c.format # <<>> THEN str_strip(str_upper(c.format)) ELSE <<>>
             format_used == IF format_normalized # <<>> THEN format_normalized ELSE DefaultFormat
         IN  IF ~months.ok THEN ConfigError
             ELSE IF ~days.ok THEN ConfigError
             ELSE IF Truthy(c.custom_pattern) /\ ~_validate_pattern(Get(c.custom_pattern), plat)
                  THEN ConfigError
             ELSE IF ~Truthy(c.custom_pattern) /\ ~parse_format_spec(format_used).ok
                  THEN [ok |-> FALSE, err |-> parse_format_spec(format_used).err, config |-> NoConfig]
             ELSE [ok |-> TRUE, err |-> "",
                   config |-> [start_year |-> c.start_year, end_year |-> c.end_year,
                               format |-> format_used, separator |-> c.separator,
                               custom_pattern |-> c.custom_pattern,
                               months |-> months.value, days |-> days.value,
                               prefix |-> c.prefix, suffix |-> c.suffix,
                               case |-> case_normalized, reverse |-> c.reverse]]

----------------------------------------------------------------------------
(* DateGenerator: iteration (_iter_ymd) *)

AllMonths == <<1, 2, 3, 4, 5, 6, 7, 8, 9, 10, 11, 12>>

\* all months only when the filter is absent (if months is None)
months_of_unless_given(config) == IF IsNone(config.months) THEN AllMonths ELSE Get(config.months)

\* line 214: self.config.months or tuple(range(1, 13))
months_of(config) == IF Truthy(config.months) THEN Get(config.months) ELSE AllMonths

\* months_iter_factory(): the months in iteration order
months_iter(config) ==
    IF config.reverse THEN Reverse(months_of(config)) ELSE months_of(config)

SelectSeq2(s, limit) == SelectSeq(s, LAMBDA d : d <= limit)

\* a month left without a valid day falls back to its last day
day_iter_clamped(config, year, month) ==
    LET last_day == monthrange(year, month)
    IN  IF IsNone(config.days)
        THEN IF config.reverse THEN [i \in 1..last_day |-> last_day + 1 - i]
             ELSE [i \in 1..last_day |-> i]
        ELSE LET valid_days == SelectSeq2(Get(config.days), last_day)
             IN  IF valid_days = <<>> THEN <<last_day>>
                 ELSE IF config.reverse THEN Reverse(valid_days) ELSE valid_days

\* every month taken to have 31 days
day_iter_unclipped(config, year, month) ==
    LET last_day == 31
    IN  IF IsNone(config.days)
        THEN IF config.reverse THEN [i \in 1..last_day |-> last_day + 1 - i]
             ELSE [i \in 1..last_day |-> i]
        ELSE LET valid_days == SelectSeq2(Get(config.days), last_day)
             IN  IF config.reverse THEN Reverse(valid_days) ELSE valid_days

\* day_iter of lines 228-236 for one (year, month)
day_iter(config, year, month) ==
    LET last_day == monthrange(year, month)
    IN  IF IsNone(config.days)
        THEN IF config.reverse THEN [i \in 1..last_day |-> last_day + 1 - i]
             ELSE [i \in 1..last_day |-> i]
        ELSE LET valid_days == SelectSeq2(Get(config.days), last_day)
             IN  IF config.reverse THEN Reverse(valid_days) ELSE valid_days

first_year(config) == IF config.reverse THEN config.end_year ELSE config.start_year

next_year(config, year) == IF config.reverse THEN year - 1 ELSE year + 1

\* Resume the suspended loops of _iter_ymd after position (year, mpos, dpos):
\* run to the next yield, or fall off the end of the year loop.
RECURSIVE resume_iter_ymd(_, _, _, _)
resume_iter_ymd(config, year, mpos, dpos) ==
    IF year < config.start_year \/ year > config.end_year
    THEN [stop |-> TRUE, year |-> year, mpos |-> mpos, dpos |-> dpos, ymd |-> <<0, 0, 0>>]
    ELSE IF mpos > Len(months_iter(config))
    THEN resume_iter_ymd(config, next_year(config, year), 1, 0)
    ELSE LET month == months_iter(config)[mpos]
             days == day_iter(config, year, month)
         IN  IF dpos + 1 <= Len(days)
             THEN [stop |-> FALSE, year |-> year, mpos |-> mpos, dpos |-> dpos + 1,
                   ymd |-> <<year, month, days[dpos + 1]>>]
             ELSE resume_iter_ymd(config, year, mpos + 1, 0)

----------------------------------------------------------------------------
(* DateGenerator: formatting *)

\* the case transform applied after the affixes are attached
_apply_case_after_affixes(config, text) ==
    LET whole == config.prefix \o text \o config.suffix
    IN  IF config.case = Some(S_lower) THEN str_lower(whole)
        ELSE IF config.case = Some(S_upper) THEN str_upper(whole)
        ELSE whole

_apply_affixes_and_case(config, text) ==
    LET cased == IF config.case = Some(S_lower) THEN str_lower(text)
                 ELSE IF config.case = Some(S_upper) THEN str_upper(text)
                 ELSE text
    IN  config.prefix \o cased \o config.suffix

\* the short year rendered without reducing it mod 100
format_token_full_year(token, year, month, day) ==
    CASE token = "Y4" -> format_0d(year, 4)
      [] token = "Y2" -> format_0d(year, 2)
      [] token = "M"  -> format_0d(month, 2)
      [] token = "D"  -> format_0d(day, 2)

\* one branch of the token loop of _format_spec
format_token(token, year, month, day) ==
    CASE token = "Y4" -> format_0d(year, 4)
      [] token = "Y2" -> format_0d(year % 100, 2)
      [] token = "M"  -> format_0d(month, 2)
      [] token = "D"  -> format_0d(day, 2)

\* _format_spec once self._spec_tokens is filled
_format_spec(config, tokens, year, month, day) ==
    LET parts == [i \in DOMAIN tokens |-> format_token(tokens[i], year, month, day)]
    IN  _apply_affixes_and_case(config, str_join(config.separator, parts))

\* the separator inserted between the items of the custom pattern as well
_format_custom_separated(config, year, month, day) ==
    LET pattern == Get(config.custom_pattern)
    IN  _apply_affixes_and_case(config,
            str_join(config.separator,
                     [i \in DOMAIN pattern |-> strftime_item(pattern[i], year, month, day)]))

\* line 243: self.config.custom_pattern or "%Y%m%d" (the pattern is truthy here)
_format_custom(config, year, month, day) ==
    _apply_affixes_and_case(config, strftime(Get(config.custom_pattern), year, month, day))

\* the branch of generate(): line 187
uses_custom(config) == Truthy(config.custom_pattern)

----------------------------------------------------------------------------
(* The objects: two DateGenerator instances built one after the other *)

G == {1, 2}

NoObj == [status |-> "none", err |-> "", config |-> NoConfig, _spec_tokens |-> None]
NoIter == [status |-> "none", err |-> "", year |-> 0, mpos |-> 0, dpos |-> 0]

\* the frame kept on the DateGenerator: a new call picks up where the other
\* live iterator stands
new_iterator_resuming(config, other) ==
    IF other.status = "suspended" THEN other
    ELSE [status |-> "suspended", err |-> "", year |-> first_year(config), mpos |-> 1, dpos |-> 0]

\* the frame of a fresh generate() call: its loops have not started.  The
\* frame is private to the call; other is the other live iterator.
new_iterator(config, other) ==
    [status |-> "suspended", err |-> "", year |-> first_year(config), mpos |-> 1, dpos |-> 0]

\* the cache extended by a further parse on every render after the first
cached_tokens_accumulating(cache, format) ==
    IF IsNone(cache) THEN parse_format_spec(format).tokens
    ELSE Get(cache) \o parse_format_spec(format).tokens

\* lines 247-248: the tokens _format_spec renders with, parsed on first use
cached_tokens(cache, format) ==
    IF IsNone(cache) THEN parse_format_spec(format).tokens ELSE Get(cache)

Finished(g) ==
    \/ obj[owner[g]].status = "error"
    \/ iter[g].status \in {"done", "raised"}

\* both iterators belong to one DateGenerator
Shared == owner[1] = owner[2]

\* iterators of separate DateGenerators run one after the other; iterators of
\* one DateGenerator are advanced in any interleaving
Turn(g) == g = 1 \/ Finished(1) \/ Shared

\* the keyword fields silently taking second place to the config object
conflict_ignored(r) == FALSE

\* line 172: a config object and keyword fields were both given
conflict(r) == r = "both"

\* DateGenerator.__init__(cfg[g]) or DateGenerator.__init__(**cfg[g])
Construct(g) ==
    /\ Turn(g)
    /\ g \in {owner[i] : i \in G}
    /\ obj[g].status = "none"
    /\ LET n == IF conflict(route[g]) THEN ConfigError ELSE normalized(cfg[g], platform)
       IN  obj' = [obj EXCEPT ![g] =
                     IF n.ok THEN [status |-> "ok", err |-> "", config |-> n.config,
                                   _spec_tokens |-> None]
                     ELSE [status |-> "error", err |-> n.err, config |-> NoConfig,
                           _spec_tokens |-> None]]
    /\ UNCHANGED <<spec_in, parsed, platform, cfg, route, caller, owner, iter, out, last>>

\* it = obj[g].generate(): a generator function runs no code until the first next()
Generate(g) ==
    /\ Turn(g)
    /\ obj[owner[g]].status = "ok"
    /\ iter[g].status = "none"
    /\ iter' = [iter EXCEPT ![g] = new_iterator(obj[owner[g]].config, iter[3 - g])]
    /\ UNCHANGED <<spec_in, parsed, platform, cfg, route, caller, obj, owner, out, last>>

\* generate() resumed at position (year, mpos, dpos) with the token cache as
\* it is: it yields a value (status "suspended"), returns ("done") or raises
resume_generate(config, cache, plat, year, mpos, dpos) ==
    LET r == resume_iter_ymd(config, year, mpos, dpos)
        y == r.ymd[1]
        m == r.ymd[2]
        d == r.ymd[3]
        p == parse_format_spec(config.format)
        tokens == cached_tokens(cache, config.format)
        stay(st, e) == [status |-> st, err |-> e, year |-> year, mpos |-> mpos, dpos |-> dpos,
                        cache |-> cache, value |-> None]
        yield(c, text) == [status |-> "suspended", err |-> "", year |-> r.year, mpos |-> r.mpos,
                           dpos |-> r.dpos, cache |-> c,
                           value |-> Some([ymd |-> r.ymd, text |-> text])]
    IN  IF r.stop THEN stay("done", "")
        ELSE IF uses_custom(config)
        THEN IF ~date_ok(y, m, d) \/ ~strftime_ok(Get(config.custom_pattern), plat)
             THEN stay("raised", "ValueError")
             ELSE yield(cache, _format_custom(config, y, m, d))
        ELSE IF IsNone(cache) /\ ~p.ok THEN stay("raised", p.err)
             ELSE yield(Some(tokens), _format_spec(config, tokens, y, m, d))

\* next(it): resume generate() until it yields, returns or raises
Pull(g) ==
    /\ Turn(g)
    /\ iter[g].status = "suspended"
    /\ \E o \in {owner[g]} :
       \E s \in {resume_generate(obj[o].config, obj[o]._spec_tokens, platform,
                                 iter[g].year, iter[g].mpos, iter[g].dpos)} :
           /\ iter' = [iter EXCEPT ![g] = [status |-> s.status, err |-> s.err, year |-> s.year,
                                           mpos |-> s.mpos, dpos |-> s.dpos]]
           /\ obj' = [obj EXCEPT ![o]._spec_tokens = s.cache]
           /\ out' = [out EXCEPT ![g] = IF IsNone(s.value) THEN @ ELSE Append(@, Get(s.value))]
    /\ UNCHANGED <<spec_in, parsed, platform, cfg, route, caller, owner, last>>

Next == \E g \in G : Construct(g) \/ Generate(g) \/ Pull(g)

----------------------------------------------------------------------------
(* Whole-sequence consumers (generate_to_list, write) and the caller *)

\* a fresh generate() pulled until it returns or raises: list(self.generate())
\* and the for loop of write()
RECURSIVE drain(_, _, _, _, _, _, _)
drain(config, cache, plat, year, mpos, dpos, acc) ==
    LET s == resume_generate(config, cache, plat, year, mpos, dpos)
    IN  IF s.status = "suspended"
        THEN drain(config, s.cache, plat, s.year, s.mpos, s.dpos, Append(acc, Get(s.value)))
        ELSE [status |-> s.status, err |-> s.err, cache |-> s.cache, values |-> acc]

run_generate(config, cache, plat) ==
    LET it == new_iterator(config, NoIter)
    IN  drain(config, cache, plat, it.year, it.mpos, it.dpos, <<>>)

texts_of(values) == [i \in DOMAIN values |-> values[i].text]

\* the outcome of one call: what it returned or raised, the values its
\* generate() run produced, and the file it left behind (write only)
Outcome(op, args, status, err, returned, file, values) ==
    [op |-> op, args |-> args, status |-> status, err |-> err, returned |-> returned,
     file |-> file, emitted |-> texts_of(values)]

NoArgs == [destination |-> <<>>, newline |-> None, chunk_size |-> None]

\* DateGenerator.generate_to_list()
GenerateToList(g) ==
    /\ obj[g].status = "ok"
    /\ \E r \in {run_generate(obj[g].config, obj[g]._spec_tokens, platform)} :
         /\ last' = [last EXCEPT ![g] =
                Some(IF r.status = "done"
                     THEN Outcome("generate_to_list", NoArgs, "returned", "",
                                  Some(texts_of(r.values)), None, r.values)
                     ELSE Outcome("generate_to_list", NoArgs, "raised", r.err,
                                  None, None, r.values))]
         /\ obj' = [obj EXCEPT ![g]._spec_tokens = r.cache]
    /\ UNCHANGED <<spec_in, parsed, platform, cfg, route, caller, owner, iter, out>>

\* the characters "\n" and "\r"
LF == "LF"
CR == "CR"

\* line 200: the parameters of write() besides self
write_parameters == {"destination", "newline"}

\* the keywords of a call write(destination, newline=..., chunk_size=...)
keywords(args) ==
    (IF IsNone(args.newline) THEN {} ELSE {"newline"})
        \cup (IF IsNone(args.chunk_size) THEN {} ELSE {"chunk_size"})

\* Path(destination), the destination given as its components: empty and "."
\* components (repeated or trailing slashes, "./") are dropped
Path(destination) == SelectSeq(destination, LAMBDA part : part \notin {"", "."})

\* the line ending put between the values only
written_joined(values, newline) == str_join(newline, [i \in DOMAIN values |-> values[i].text])

\* what the stream holds after the loop of lines 205-207
written(values, newline) == Flatten([i \in DOMAIN values |-> values[i].text \o newline])

\* the calls of write(): the default line ending, a two-character line ending
\* into a nested destination spelt with a doubled slash, and a chunk size
WriteArgs ==
    {[destination |-> <<"dates.txt">>, newline |-> None, chunk_size |-> None],
     [destination |-> <<"out", "", "dates.txt">>, newline |-> Some(<<CR, LF>>), chunk_size |-> None],
     [destination |-> <<"dates.txt">>, newline |-> None, chunk_size |-> Some(10)]}

\* DateGenerator.write(destination, **keywords)
Write(g) ==
    /\ obj[g].status = "ok"
    /\ \E args \in WriteArgs :
         IF ~(keywords(args) \subseteq write_parameters)
         THEN /\ last' = [last EXCEPT ![g] =
                     Some(Outcome("write", args, "raised", "TypeError", None, None, <<>>))]
              /\ UNCHANGED obj
         ELSE \E r \in {run_generate(obj[g].config, obj[g]._spec_tokens, platform)} :
                LET newline == IF IsNone(args.newline) THEN <<LF>> ELSE Get(args.newline)
                    file == Some([path |-> Path(args.destination),
                                  content |-> written(r.values, newline)])
                IN  /\ last' = [last EXCEPT ![g] =
                           Some(IF r.status = "done"
                                THEN Outcome("write", args, "returned", "",
                                             Some(Path(args.destination)), file, r.values)
                                ELSE Outcome("write", args, "raised", r.err, None, file,
                                             r.values))]
                    /\ obj' = [obj EXCEPT ![g]._spec_tokens = r.cache]
    /\ UNCHANGED <<spec_in, parsed, platform, cfg, route, caller, owner, iter, out>>

\* the consumer drops iterator g, finished or part-way
Abandon(g) ==
    /\ iter[g].status # "none"
    /\ iter' = [iter EXCEPT ![g] = NoIter]
    /\ out' = [out EXCEPT ![g] = <<>>]
    /\ UNCHANGED <<spec_in, parsed, platform, cfg, route, caller, obj, owner, last>>

\* the stored filter is the caller's list itself when the list needed no change
shares_when_normal(field, passed) ==
    /\ field \in {"months", "days"}
    /\ ~IsNone(passed)
    /\ Get(passed) = sorted(dedupe(Get(passed), <<>>))

\* whether the stored configuration shares an object with the caller: line 158
\* builds a new tuple for months and days, lines 131-144 a new
\* DateGeneratorConfig for the config object
shares(field, passed) == FALSE

\* what the caller can do to their own objects after construction:
\* ms[:] = [3], ds.clear(), and on a config object config.reverse = not config.reverse
Mutated(c, r) ==
    {[c EXCEPT !.months = Some(<<3>>)] : x \in {1} \cap (IF IsNone(c.months) THEN {} ELSE {1})}
        \cup {[c EXCEPT !.days = Some(<<>>)] : x \in {1} \cap (IF IsNone(c.days) THEN {} ELSE {1})}
        \cup {[c EXCEPT !.reverse = ~c.reverse] : x \in {1} \cap (IF r = "config" THEN {1} ELSE {})}

\* the stored configuration as it reads once the caller's objects hold c
seen_through(config, passed, c) ==
    [config EXCEPT
        !.months = IF shares("months", passed.months) THEN c.months ELSE @,
        !.days = IF shares("days", passed.days) THEN c.days ELSE @,
        !.reverse = IF shares("config", passed) THEN c.reverse ELSE @]

MutateCaller(g) ==
    /\ obj[g].status = "ok"
    /\ \E c \in Mutated(caller[g], route[g]) \ {caller[g]} :
         /\ caller' = [caller EXCEPT ![g] = c]
         /\ obj' = [obj EXCEPT ![g].config = seen_through(@, cfg[g], c)]
    /\ UNCHANGED <<spec_in, parsed, platform, cfg, route, owner, iter, out, last>>

\* DateGenerator(generator1.config): generator 2 is to be built from the
\* configuration generator 1 stored, so __init__ normalises a normalised copy
Rebuild ==
    /\ obj[1].status = "ok"
    /\ obj[2].status = "none"
    /\ Finished(1)
    /\ route[2] # "config"
    /\ cfg' = [cfg EXCEPT ![2] = obj[1].config]
    /\ caller' = [caller EXCEPT ![2] = obj[1].config]
    /\ route' = [route EXCEPT ![2] = "config"]
    /\ UNCHANGED <<spec_in, parsed, platform, obj, owner, iter, out, last>>

NextNorm == Next \/ Rebuild

NextLife ==
    \/ Next
    \/ \E g \in G : GenerateToList(g) \/ Write(g) \/ Abandon(g) \/ MutateCaller(g)

----------------------------------------------------------------------------
(* A direct call of parse_format_spec *)

Parse ==
    /\ IsNone(parsed)
    /\ parsed' = Some(parse_format_spec(spec_in))
    /\ UNCHANGED <<spec_in, platform, cfg, route, caller, obj, owner, iter, out, last>>

NextParse == Parse

----------------------------------------------------------------------------
(* Inputs *)

F_DDMMYY == <<"D", "D", "M", "M", "Y", "Y">>
F_MM == <<"M", "M">>
F_yymm == <<" ", "y", "y", "m", "m">>
F_QQ == <<"Q", "Q">>
F_blank == <<" ">>
P_db == <<"%d", "%b">>
P_xm == <<"x", "%m", "%y">>
P_bad == <<"%d", "%Q">>

\* start years next to the interesting calendar boundaries: year 0, a century
\* that is not a leap year, a century that is, an ordinary leap year, and the
\* last year datetime.date supports
YearStarts == {-1, 1900, 2000, 2023, 2024, 9999}

YearPairs == UNION {{<<s, e>> : e \in (s - 1)..(s + MaxSpan)} : s \in YearStarts}

MonthsInputs == {None, Some(<<>>), Some(<<2>>), Some(<<2, 1>>), Some(<<12, 2, 2>>), Some(<<13>>)}

DaysInputs == {None, Some(<<>>), Some(<<1>>), Some(<<31, 29, 1>>), Some(<<30, 28, 30>>), Some(<<0, 1>>)}

Config(sy, ey, fmt, sep, pat, ms, ds, pre, suf, cs, rev) ==
    [start_year |-> sy, end_year |-> ey, format |-> fmt, separator |-> sep,
     custom_pattern |-> pat, months |-> ms, days |-> ds,
     prefix |-> pre, suffix |-> suf, case |-> cs, reverse |-> rev]

\* year ranges, filters and direction vary; the rendering is a fixed symbolic
\* format or a fixed custom pattern
CalendarConfigs ==
    {Config(yp[1], yp[2], DefaultFormat, <<"-">>, pat, ms, ds, <<>>, <<>>, None, rev) :
        yp \in YearPairs, pat \in {None, Some(P_db)}, ms \in MonthsInputs,
        ds \in DaysInputs, rev \in BOOLEAN}

TypeStart ==
    /\ spec_in = <<>>
    /\ parsed = None
    /\ obj = [g \in G |-> NoObj]
    /\ iter = [g \in G |-> NoIter]
    /\ out = [g \in G |-> <<>>]
    /\ last = [g \in G |-> None]

\* two DateGenerators, each built from keyword fields, one iterator on each
Separate ==
    /\ route = [g \in G |-> "kwargs"]
    /\ owner = [g \in G |-> g]
    /\ caller = cfg

\* generator 2 is generator 1's configuration with the direction flipped
Init ==
    /\ TypeStart
    /\ platform = "glibc"
    /\ \E c \in CalendarConfigs :
         cfg = [g \in G |-> IF g = 1 THEN c ELSE [c EXCEPT !.reverse = ~c.reverse]]
    /\ Separate

Spec == Init /\ [][Next]_vars

LifeYearPairs == {<<2023, 2023>>, <<9999, 10000>>, <<2024, 2023>>}

\* filters that keep a year's sequence short: no day at all, two days of
\* January given in normal form, or three days of two months given unsorted
\* and repeated
LifeFilters ==
    {<<ms, Some(<<>>)>> : ms \in {None, Some(<<>>), Some(<<2, 1, 2>>), Some(<<1>>)}}
        \cup {<<Some(<<1>>), Some(<<1, 2>>)>>, <<Some(<<2, 1, 2>>), Some(<<31, 1, 31>>)>>}

LifeConfigs ==
    {Config(yp[1], yp[2], DefaultFormat, <<>>, pat, f[1], f[2], <<>>, <<>>, None, rev) :
        yp \in LifeYearPairs, pat \in {None, Some(P_db)}, f \in LifeFilters, rev \in BOOLEAN}

\* one DateGenerator, built from a config object, from keyword fields or from
\* both, with two iterator slots on it
InitLife ==
    /\ TypeStart
    /\ platform = "glibc"
    /\ \E c \in LifeConfigs : cfg = [g \in G |-> IF g = 1 THEN c ELSE NoConfig]
    /\ \E r \in {"kwargs", "config", "both"} : route = [g \in G |-> IF g = 1 THEN r ELSE "kwargs"]
    /\ owner = [g \in G |-> 1]
    /\ caller = cfg

SpecLife == InitLife /\ [][NextLife]_vars

----------------------------------------------------------------------------
(* Vocabulary of the properties *)

Triples(g) == [i \in DOMAIN out[g] |-> out[g][i].ymd]
Texts(g) == [i \in DOMAIN out[g] |-> out[g][i].text]

\* chronological order on (year, month, day)
Before(a, b) ==
    \/ a[1] < b[1]
    \/ a[1] = b[1] /\ a[2] < b[2]
    \/ a[1] = b[1] /\ a[2] = b[2] /\ a[3] < b[3]

GregorianLeap(y) == (y % 4 = 0 /\ y % 100 # 0) \/ y % 400 = 0

\* the real length of a month of the proleptic Gregorian calendar
RealMonthLength(y, m) ==
    IF m = 2 THEN (IF GregorianLeap(y) THEN 29 ELSE 28)
    ELSE IF m \in {4, 6, 9, 11} THEN 30 ELSE 31

\* the dates a configuration selects, months and days filters read literally
SelectedDates(c) ==
    {<<y, m, d>> \in (c.start_year..c.end_year) \X (1..12) \X (1..31) :
        /\ IsNone(c.months) \/ m \in Range(Get(c.months))
        /\ IsNone(c.days) \/ d \in Range(Get(c.days))
        /\ d <= RealMonthLength(y, m)}

Ascending(ts) == \A i \in 1..(Len(ts) - 1) : Before(ts[i], ts[i + 1])

RECURSIVE DaysInYears(_, _)
DaysInYears(from, to) ==
    IF from > to THEN 0
    ELSE (IF GregorianLeap(from) THEN 366 ELSE 365) + DaysInYears(from + 1, to)

\* generator g was constructed and its iterator ran until it returned or raised
Ran(g) == obj[g].status = "ok" /\ iter[g].status \in {"done", "raised"}

\* C1: with reverse=false a valid configuration emits exactly its selected
\* dates, each once, in ascending chronological order, and never raises.
C1_EmitsExactlySelectedAscending ==
    \A g \in G :
        (Ran(g) /\ ~cfg[g].reverse) =>
            /\ iter[g].status = "done"
            /\ Ascending(Triples(g))
            /\ Range(Triples(g)) = SelectedDates(cfg[g])

\* C2: without filters every year of start_year..end_year contributes 366
\* values when it is a Gregorian leap year and 365 otherwise; ascending, the
\* first value is 1 January of start_year and the last 31 December of end_year.
C2_UnfilteredYearCounts ==
    \A g \in G :
        (Ran(g) /\ IsNone(cfg[g].months) /\ IsNone(cfg[g].days)) =>
            /\ Len(out[g]) = DaysInYears(cfg[g].start_year, cfg[g].end_year)
            /\ ~cfg[g].reverse =>
                 /\ out[g][1].ymd = <<cfg[g].start_year, 1, 1>>
                 /\ out[g][Len(out[g])].ymd = <<cfg[g].end_year, 12, 31>>
            /\ (/\ ~cfg[g].reverse /\ IsNone(cfg[g].custom_pattern)
                /\ cfg[g].start_year = 2024 /\ cfg[g].end_year = 2024) =>
                 /\ Len(out[g]) = 366
                 /\ out[g][1].text = <<"2", "0", "2", "4", "-", "0", "1", "-", "0", "1">>
                 /\ out[g][366].text = <<"2", "0", "2", "4", "-", "1", "2", "-", "3", "1">>

\* the two generators differ in nothing but the direction
ReversePair == cfg[2] = [cfg[1] EXCEPT !.reverse = ~cfg[1].reverse]

Fwd == IF cfg[1].reverse THEN 2 ELSE 1
Rev == IF cfg[1].reverse THEN 1 ELSE 2

\* C3: the sequence generated with reverse=true is the sequence generated
\* with reverse=false read backwards.
C3_ReverseIsForwardBackwards ==
    (ReversePair /\ Ran(1) /\ Ran(2)) => Texts(Rev) = Reverse(Texts(Fwd))

\* C9: start_year > end_year fails at construction with the configuration
\* error, no iterator exists and no value is produced; start_year = end_year
\* (with filters in range, the other fields being valid throughout Spec) is
\* accepted and only dates of that year are generated.
C9_RangeCheckedAtConstruction ==
    \A g \in G :
        /\ cfg[g].start_year > cfg[g].end_year =>
             /\ obj[g].status # "ok"
             /\ obj[g].status = "error" => obj[g].err = "DateGeneratorError"
             /\ iter[g].status = "none"
             /\ out[g] = <<>>
        /\ (/\ cfg[g].start_year = cfg[g].end_year
            /\ IsNone(cfg[g].months) \/ Range(Get(cfg[g].months)) \subseteq 1..12
            /\ IsNone(cfg[g].days) \/ Range(Get(cfg[g].days)) \subseteq 1..31) =>
             /\ obj[g].status # "error"
             /\ \A i \in DOMAIN out[g] : out[g][i].ymd[1] = cfg[g].start_year

C9_Witness ==
    /\ cfg[1].start_year > cfg[1].end_year
    /\ obj[1].status = "error"
    /\ cfg[2].start_year > cfg[2].end_year
    /\ obj[2].status = "error"

\* C10: once construction has succeeded, pulling the sequence never raises.
C10_NoFailureMidStream ==
    \A g \in G : iter[g].status # "raised"

\* C15: the sequence of every valid configuration is finite: an iterator
\* never holds more than 366 values per year of the range, and every pull
\* either adds one value or ends the sequence, so a consumer that keeps
\* pulling reaches the end after at most that many values.
C15_SequenceFinite ==
    /\ [](\A g \in G : Len(out[g]) <= 366 * (cfg[g].end_year - cfg[g].start_year + 1))
    /\ [][\A g \in G :
            (iter[g].status = "suspended" /\ iter'[g] # iter[g]) =>
                \/ Len(out'[g]) = Len(out[g]) + 1 /\ iter'[g].status = "suspended"
                \/ out'[g] = out[g] /\ iter'[g].status \in {"done", "raised"}]_vars

\* a whole leap year was pulled to the end: the bound is met exactly
C15_Witness ==
    /\ cfg[1].start_year = 2024 /\ cfg[1].end_year = 2024
    /\ IsNone(cfg[1].months) /\ IsNone(cfg[1].days)
    /\ iter[1].status = "done"
    /\ Len(out[1]) = 366

OutOfRange(filter, minimum, maximum) ==
    ~IsNone(filter) /\ \E i \in DOMAIN Get(filter) : Get(filter)[i] \notin minimum..maximum

\* C11: a months value outside 1..12 or a days value outside 1..31 makes
\* construction fail with the configuration error, no generator exists and
\* no value is produced; with every filter value inside its range (the year
\* range being valid, as the other fields are throughout Spec) construction
\* succeeds.
C11_FiltersRangeChecked ==
    \A g \in G :
        /\ (OutOfRange(cfg[g].months, 1, 12) \/ OutOfRange(cfg[g].days, 1, 31)) =>
             /\ obj[g].status # "ok"
             /\ obj[g].status = "error" => obj[g].err = "DateGeneratorError"
             /\ iter[g].status = "none"
             /\ out[g] = <<>>
        /\ (/\ ~OutOfRange(cfg[g].months, 1, 12)
            /\ ~OutOfRange(cfg[g].days, 1, 31)
            /\ cfg[g].start_year <= cfg[g].end_year) =>
             obj[g].status # "error"

\* a days value below the range, the months being in range, was rejected, the
\* year range being valid
C11_Witness ==
    /\ cfg[1].days = Some(<<0, 1>>)
    /\ cfg[1].months = Some(<<2, 1>>)
    /\ cfg[1].start_year <= cfg[1].end_year
    /\ obj[1].status = "error"
    /\ obj[1].err = "DateGeneratorError"

----------------------------------------------------------------------------
(* Direct calls of parse_format_spec *)

FormatLetters == {"Y", "M", "D"}
MixedChars == {"Y", "M", "D", "y", "d", " ", "Q"}

Spaces(n) == Repeat(" ", n)

\* every string over {Y, M, D} up to MaxSpecLen, as typed or lowercased, bare
\* or between blanks; every string over the mixed alphabet up to MaxMixedLen
ParseInputs ==
    {Spaces(pad) \o (IF low THEN str_lower(core) ELSE core) \o Spaces(pad) :
        core \in SeqsUpTo(FormatLetters, MaxSpecLen), low \in BOOLEAN, pad \in 0..1}
    \cup SeqsUpTo(MixedChars, MaxMixedLen)

InitParse ==
    /\ spec_in \in ParseInputs
    /\ parsed = None
    /\ platform = "glibc"
    /\ cfg = [g \in G |-> NoConfig]
    /\ obj = [g \in G |-> NoObj]
    /\ iter = [g \in G |-> NoIter]
    /\ out = [g \in G |-> <<>>]
    /\ last = [g \in G |-> None]
    /\ Separate

SpecParse == InitParse /\ [][NextParse]_vars

TokenText(token) ==
    CASE token = "Y4" -> <<"Y", "Y", "Y", "Y">>
      [] token = "Y2" -> <<"Y", "Y">>
      [] token = "M"  -> <<"M", "M">>
      [] token = "D"  -> <<"D", "D">>

TokenLetter(token) == TokenText(token)[1]

\* one to three runs of distinct letters, each of an allowed length
RunSequences ==
    {ts \in SeqsUpTo({"Y4", "Y2", "M", "D"}, 3) :
        /\ ts # <<>>
        /\ \A i, j \in DOMAIN ts : i # j => TokenLetter(ts[i]) # TokenLetter(ts[j])}

Expand(ts) == Flatten([i \in DOMAIN ts |-> TokenText(ts[i])])

\* t is s uppercased with the surrounding blanks removed
IsUpperTrimmed(s, t) ==
    \E lead \in 0..(Len(s) - Len(t)) :
      LET trail == Len(s) - Len(t) - lead IN
        /\ \A i \in 1..lead : s[i] = " "
        /\ \A i \in (Len(s) - trail + 1)..Len(s) : s[i] = " "
        /\ \A i \in 1..Len(t) : t[i] = upper_char(s[lead + i])
        /\ t # <<>> => (t[1] # " " /\ t[Len(t)] # " ")

\* C4: parse_format_spec succeeds exactly when the uppercased, trimmed input
\* is a concatenation of one to three runs of distinct letters of allowed
\* length, and then returns one token per run in the order of the runs.
C4_ParseAcceptsExactlyRunSequences ==
    ~IsNone(parsed) =>
        /\ Get(parsed).ok <=> \E ts \in RunSequences : IsUpperTrimmed(spec_in, Expand(ts))
        /\ Get(parsed).ok =>
             /\ Get(parsed).tokens \in RunSequences
             /\ IsUpperTrimmed(spec_in, Expand(Get(parsed).tokens))

C4_Witness ==
    /\ ~IsNone(parsed)
    /\ spec_in = <<" ", "d", "d", "m", "m", "y", "y", "y", "y", " ">>
    /\ Get(parsed).ok
    /\ Get(parsed).tokens = <<"D", "M", "Y4">>

\* C5: parse_format_spec returns a non-empty token sequence or fails with
\* DateGeneratorError, and with no other kind of failure.
C5_ParseFailsOnlyWithFormatError ==
    ~IsNone(parsed) =>
        \/ Get(parsed).ok /\ Get(parsed).tokens # <<>>
        \/ ~Get(parsed).ok /\ Get(parsed).err = "DateGeneratorError"

----------------------------------------------------------------------------
(* Rendering: formats, separators, patterns, affixes and case vary over a     *)
(* few dates                                                                 *)

S_UPPER == <<"U", "P", "P", "E", "R">>
S_title == <<"t", "i", "t", "l", "e">>

RenderYearPairs == {<<-1, -1>>, <<5, 5>>, <<2024, 2024>>, <<9999, 9999 + MaxSpan>>}

RenderDates == {<<Some(<<12>>), Some(<<31>>)>>, <<Some(<<1, 2, 3>>), Some(<<1>>)>>}

FormatInputs == {DefaultFormat, F_DDMMYY, F_MM, F_yymm, F_QQ, F_blank, <<>>}

SeparatorInputs == {<<>>, <<"a", "-">>}

PatternInputs == {None, Some(<<>>), Some(P_db), Some(P_xm), Some(P_bad)}

AffixInputs == {<< <<>>, <<>> >>, << <<"a", "B">>, <<"C", "d">> >>}

CaseInputs == {None, Some(<<>>), Some(S_lower), Some(S_UPPER), Some(S_title)}

RenderConfigs ==
    {Config(yp[1], yp[2], fmt, sep, pat, md[1], md[2], af[1], af[2], cs, FALSE) :
        yp \in RenderYearPairs, md \in RenderDates, fmt \in FormatInputs,
        sep \in SeparatorInputs, pat \in PatternInputs, af \in AffixInputs,
        cs \in CaseInputs}

\* the other format and separator generator 2 is given
TwinFormats == {<<F_DDMMYY, <<"/">> >>, <<F_QQ, <<>> >>}

\* generator 2 is generator 1's configuration with another format and separator
InitRender ==
    /\ TypeStart
    /\ \E c \in RenderConfigs, tw \in TwinFormats :
         /\ cfg = [g \in G |-> IF g = 1 THEN c
                               ELSE [c EXCEPT !.format = tw[1], !.separator = tw[2]]]
         /\ platform \in (IF Truthy(c.custom_pattern) /\ "%Q" \in Range(Get(c.custom_pattern))
                          THEN {"glibc", "msvcrt"} ELSE {"glibc"})
    /\ Separate

SpecRender == InitRender /\ [][Next]_vars

\* n >= 0 written with at least w decimal digits, digit by digit
RECURSIVE Pow10(_)
Pow10(k) == IF k = 0 THEN 1 ELSE 10 * Pow10(k - 1)

NumDigits(n) == CHOOSE k \in 1..6 : (IF k = 1 THEN 0 ELSE Pow10(k - 1)) <= n /\ n < Pow10(k)

ZeroPadded(n, w) ==
    LET k == IF NumDigits(n) > w THEN NumDigits(n) ELSE w
    IN  [i \in 1..k |-> Digits[((n \div Pow10(k - i)) % 10) + 1]]

\* a field zero-padded to a minimum width of w characters; the minus sign of
\* a negative number takes one of them
Field(n, w) == IF n < 0 THEN <<"-">> \o ZeroPadded(-n, w - 1) ELSE ZeroPadded(n, w)

FieldOf(token, ymd) ==
    CASE token = "Y4" -> Field(ymd[1], 4)
      [] token = "Y2" -> Field(ymd[1] % 100, 2)
      [] token = "M"  -> Field(ymd[2], 2)
      [] token = "D"  -> Field(ymd[3], 2)

\* the format a configuration asks for: a blank format means the default
AskedFormat(c) == IF \A i \in DOMAIN c.format : c.format[i] = " " THEN DefaultFormat ELSE c.format

AskedTokens(c) == CHOOSE ts \in RunSequences : IsUpperTrimmed(AskedFormat(c), Expand(ts))

AskedCase(c) == IF Truthy(c.case) THEN str_lower(Get(c.case)) ELSE <<>>

CaseT(c, text) ==
    IF AskedCase(c) = S_lower THEN [i \in DOMAIN text |-> lower_char(text[i])]
    ELSE IF AskedCase(c) = S_upper THEN [i \in DOMAIN text |-> upper_char(text[i])]
    ELSE text

Joined(c, ymd) ==
    LET ts == AskedTokens(c)
    IN  Flatten([i \in DOMAIN ts |->
                    (IF i > 1 THEN c.separator ELSE <<>>) \o FieldOf(ts[i], ymd)])

\* C6: without a custom pattern every emitted date is rendered token by token
\* in the order of the format (full year zero-padded to 4, short year
\* year mod 100 zero-padded to 2, month and day zero-padded to 2) and joined
\* with the separator; fields the format does not name do not appear.
C6_SymbolicRendering ==
    \A g \in G :
        ~Truthy(cfg[g].custom_pattern) =>
            \A i \in DOMAIN out[g] :
                out[g][i].text =
                    cfg[g].prefix \o CaseT(cfg[g], Joined(cfg[g], out[g][i].ymd)) \o cfg[g].suffix

C6_Witness ==
    /\ cfg[1].format = F_MM
    /\ IsNone(cfg[1].custom_pattern)
    /\ Texts(1) = << <<"0", "1">>, <<"0", "2">>, <<"0", "3">> >>
    /\ cfg[2].format = F_DDMMYY
    /\ cfg[2].separator = <<"/">>
    /\ cfg[2].prefix = <<>>
    /\ Len(out[2]) >= 1
    /\ out[2][1].text = <<"0", "1", "/", "0", "1", "/", "2", "4">>

\* the date portion before case and affixes
DatePortion(c, ymd) ==
    IF Truthy(c.custom_pattern) THEN strftime(Get(c.custom_pattern), ymd[1], ymd[2], ymd[3])
    ELSE Joined(c, ymd)

\* C7: every emitted value is the prefix, then the case transform of the
\* date portion, then the suffix; prefix and suffix are emitted unmodified.
C7_CaseBeforeAffixes ==
    \A g \in G : \A i \in DOMAIN out[g] :
        LET t == out[g][i].text
            pre == cfg[g].prefix
            suf == cfg[g].suffix
        IN  /\ Len(t) >= Len(pre) + Len(suf)
            /\ SubSeq(t, 1, Len(pre)) = pre
            /\ SubSeq(t, Len(t) - Len(suf) + 1, Len(t)) = suf
            /\ SubSeq(t, Len(pre) + 1, Len(t) - Len(suf)) =
                    CaseT(cfg[g], DatePortion(cfg[g], out[g][i].ymd))

C7_Witness ==
    /\ cfg[1].case = Some(S_UPPER)
    /\ cfg[1].prefix = <<"a", "B">>
    /\ cfg[1].custom_pattern = Some(P_db)
    /\ Len(out[1]) >= 1
    /\ out[1][1].text = <<"a", "B", "3", "1", "D", "E", "C", "C", "d">>

\* the two generators share a non-empty custom pattern and differ in nothing
\* but format and separator
PatternPair ==
    /\ Truthy(cfg[1].custom_pattern)
    /\ cfg[2] = [cfg[1] EXCEPT !.format = cfg[2].format, !.separator = cfg[2].separator]
    /\ <<cfg[1].format, cfg[1].separator>> # <<cfg[2].format, cfg[2].separator>>

\* C8: a custom pattern overrides format and separator: two configurations
\* that share the pattern and differ only in format and separator behave
\* identically, each value being the pattern rendering with case and affixes.
C8_PatternOverridesFormat ==
    PatternPair =>
        /\ obj[2].status # "none" => obj[2].status = obj[1].status
        /\ \A i \in DOMAIN out[2] : i <= Len(out[1]) /\ out[2][i] = out[1][i]
        /\ Finished(2) => (Len(out[2]) = Len(out[1]) /\ iter[2].status = iter[1].status)
        /\ \A g \in G : \A i \in DOMAIN out[g] :
             out[g][i].text =
                cfg[g].prefix
                \o CaseT(cfg[g], strftime(Get(cfg[g].custom_pattern), out[g][i].ymd[1],
                                          out[g][i].ymd[2], out[g][i].ymd[3]))
                \o cfg[g].suffix

C8_Witness ==
    /\ PatternPair
    /\ cfg[1].format = F_MM
    /\ cfg[2].format = F_QQ
    /\ iter[2].status = "done"
    /\ Len(out[2]) = 3
    /\ Texts(2) = Texts(1)

----------------------------------------------------------------------------
(* What remains of C1, C2 and C3 where date(year, month, day) cannot raise:   *)
(* a symbolic format, or every year inside MINYEAR..MAXYEAR                  *)

DateSafe(g) ==
    \/ ~Truthy(cfg[g].custom_pattern)
    \/ MINYEAR <= cfg[g].start_year /\ cfg[g].end_year <= MAXYEAR

\* the selected dates, an empty months filter read as no filter
SelectedDatesOrAllMonths(c) ==
    SelectedDates(IF c.months = Some(<<>>) THEN [c EXCEPT !.months = None] ELSE c)

DateSafe_EmitsExactlySelectedAscending ==
    \A g \in G :
        (Ran(g) /\ DateSafe(g) /\ ~cfg[g].reverse) =>
            /\ iter[g].status = "done"
            /\ Ascending(Triples(g))
            /\ Range(Triples(g)) = SelectedDatesOrAllMonths(cfg[g])

DateSafe_UnfilteredYearCounts ==
    \A g \in G :
        (Ran(g) /\ DateSafe(g) /\ IsNone(cfg[g].months) /\ IsNone(cfg[g].days)) =>
            /\ Len(out[g]) = DaysInYears(cfg[g].start_year, cfg[g].end_year)
            /\ ~cfg[g].reverse =>
                 /\ out[g][1].ymd = <<cfg[g].start_year, 1, 1>>
                 /\ out[g][Len(out[g])].ymd = <<cfg[g].end_year, 12, 31>>
            /\ (/\ ~cfg[g].reverse /\ IsNone(cfg[g].custom_pattern)
                /\ cfg[g].start_year = 2024 /\ cfg[g].end_year = 2024) =>
                 /\ Len(out[g]) = 366
                 /\ out[g][1].text = <<"2", "0", "2", "4", "-", "0", "1", "-", "0", "1">>
                 /\ out[g][366].text = <<"2", "0", "2", "4", "-", "1", "2", "-", "3", "1">>

DateSafe_ReverseIsForwardBackwards ==
    (ReversePair /\ Ran(1) /\ Ran(2) /\ DateSafe(1)) => Texts(Rev) = Reverse(Texts(Fwd))

----------------------------------------------------------------------------
(* Claims about one DateGenerator used repeatedly (SpecLife) *)

PrefixOf(a, b) == Len(a) <= Len(b) /\ SubSeq(b, 1, Len(a)) = a

\* the sequence of the DateGenerator built from cfg[g], as one uninterrupted
\* first run produces it
Whole(g) == run_generate(normalized(cfg[g], platform).config, None, platform)

\* iterator i has produced a prefix of the run w, and all of it once finished
Follows(i, w) ==
    /\ PrefixOf(out[i], w.values)
    /\ iter[i].status \in {"done", "raised"} =>
         out[i] = w.values /\ iter[i].status = w.status /\ iter[i].err = w.err

\* the latest generate_to_list() / write() call ran generate() as w
Replays(c, w) ==
    c.err # "TypeError" =>
        /\ c.emitted = texts_of(w.values)
        /\ c.status = (IF w.status = "done" THEN "returned" ELSE "raised")
        /\ c.err = w.err

\* C12: generate() is restartable and never mutates the configuration: after
\* any number of generate(), generate_to_list() and write() calls, exhausted
\* or abandoned part-way, every configuration field is what normalisation
\* stored, and every iterator and every whole-sequence call yields the same
\* complete sequence from its first value.
C12_RestartableConfigUntouched ==
    \A g \in G : obj[g].status = "ok" =>
        \E w \in {Whole(g)} :
            /\ obj[g].config = normalized(cfg[g], platform).config
            /\ \A i \in G : owner[i] = g => Follows(i, w)
            /\ ~IsNone(last[g]) => Replays(Get(last[g]), w)

\* iterator 1 was left part-way, a write() ran to its end, and iterator 2,
\* begun on the same DateGenerator, produced the complete sequence
C12_Witness ==
    /\ iter[1].status = "suspended" /\ Len(out[1]) = 1
    /\ ~IsNone(last[1]) /\ Get(last[1]).op = "write" /\ Get(last[1]).status = "returned"
    /\ iter[2].status = "done" /\ Len(out[2]) >= 2
    /\ out[2] = Whole(1).values

\* C13: normalisation copies the filters (and the config object): once the
\* caller has changed their list or their config object after construction,
\* the stored configuration is still the one normalised from what was
\* passed, and a sequence generated from here on is the sequence of the
\* values passed.
C13_NormalizationCopies ==
    \A g \in G : (obj[g].status = "ok" /\ caller[g] # cfg[g]) =>
        \E w \in {Whole(g)} :
        \E now \in {run_generate(obj[g].config, obj[g]._spec_tokens, platform)} :
            /\ obj[g].config.months = normalized(cfg[g], platform).config.months
            /\ obj[g].config.days = normalized(cfg[g], platform).config.days
            /\ obj[g].config.reverse = cfg[g].reverse
            /\ now.values = w.values
            /\ now.status = w.status

\* the lists were passed in normal form inside a config object; the caller
\* then replaced the months, cleared the days and flipped the direction, and
\* a generate_to_list() still returned the two days of January
C13_Witness ==
    /\ route[1] = "config"
    /\ cfg[1].months = Some(<<1>>) /\ caller[1].months = Some(<<3>>)
    /\ cfg[1].days = Some(<<1, 2>>) /\ caller[1].days = Some(<<>>)
    /\ caller[1].reverse # cfg[1].reverse
    /\ ~IsNone(last[1]) /\ Get(last[1]).op = "generate_to_list"
    /\ Get(last[1]).status = "returned" /\ Len(Get(last[1]).emitted) = 2

\* the only attribute of the DateGenerator a step may write is the token
\* cache, and a filled cache keeps its value
CacheWrittenOnce ==
    \A g \in G :
        /\ (obj[g].status = "ok" /\ obj'[g].status = "ok") => obj'[g].config = obj[g].config
        /\ ~IsNone(obj[g]._spec_tokens) => obj'[g]._spec_tokens = obj[g]._spec_tokens

\* C14: two iterators made by separate generate() calls on one DateGenerator
\* and advanced in any interleaving each produce the sequence of a single
\* uninterrupted run; the token cache is the only attribute written, it
\* holds the tokens of the configured format whichever iterator rendered
\* first, and once filled it never changes.
C14_InterleavedIteratorsIndependent ==
    /\ [](\A g \in G :
            (Shared /\ owner[1] = g /\ iter[1].status # "none" /\ iter[2].status # "none") =>
                \E w \in {Whole(g)} :
                    /\ Follows(1, w)
                    /\ Follows(2, w)
                    /\ obj[g]._spec_tokens \in
                         {None, Some(parse_format_spec(obj[g].config.format).tokens)})
    /\ [][CacheWrittenOnce]_vars

\* both iterators of the DateGenerator stand part-way through a sequence of
\* three values rendered from the symbolic format
C14_Witness ==
    /\ Shared
    /\ iter[1].status = "suspended" /\ Len(out[1]) = 2
    /\ iter[2].status = "suspended" /\ Len(out[2]) = 1
    /\ ~uses_custom(obj[1].config)
    /\ ~IsNone(obj[1]._spec_tokens)
    /\ Len(Whole(1).values) = 3

\* C16: a config object together with keyword fields fails with the
\* configuration error and creates no generator; a config object alone or
\* keyword fields alone are accepted, and either way the outcome is that of
\* normalising the fields given.
C16_ConfigXorKeywords ==
    \A g \in G :
        /\ route[g] = "both" =>
             /\ obj[g].status # "ok"
             /\ obj[g].status = "error" => obj[g].err = "DateGeneratorError"
             /\ \A i \in G : owner[i] = g => iter[i].status = "none" /\ out[i] = <<>>
             /\ IsNone(last[g])
        /\ (route[g] \in {"config", "kwargs"} /\ obj[g].status # "none") =>
             \E n \in {normalized(cfg[g], platform)} :
                 /\ obj[g].status = (IF n.ok THEN "ok" ELSE "error")
                 /\ obj[g].err = n.err
                 /\ obj[g].config = n.config

\* fields that are valid by themselves were given both ways and rejected
C16_Witness ==
    /\ route[1] = "both"
    /\ normalized(cfg[1], platform).ok
    /\ obj[1].status = "error"
    /\ obj[1].err = "DateGeneratorError"

RECURSIVE Lines(_, _)
Lines(values, ending) ==
    IF values = <<>> THEN <<>> ELSE Head(values) \o ending \o Lines(Tail(values), ending)

\* the components that name a file: a doubled slash or "./" names nothing
Components(destination) == SelectSeq(destination, LAMBDA part : part # "" /\ part # ".")

\* the line ending a write() call asked for
EndingOf(c) == IF IsNone(c.args.newline) THEN <<LF>> ELSE Get(c.args.newline)

\* C17: write(destination, newline) stores exactly the values generate()
\* yields, in order, each followed by the line ending, the last one too; the
\* file is the destination, and the path returned is the destination.
C17_WriteStoresEveryValue ==
    \A g \in G :
        (~IsNone(last[g]) /\ Get(last[g]).op = "write" /\ IsNone(Get(last[g]).args.chunk_size)) =>
            \E c \in {Get(last[g])} : \E w \in {Whole(g)} :
                /\ c.emitted = texts_of(w.values)
                /\ ~IsNone(c.file)
                /\ Get(c.file).content = Lines(c.emitted, EndingOf(c))
                /\ Get(c.file).path = Components(c.args.destination)
                /\ w.status = "done" => c.status = "returned"
                /\ c.status = "returned" => c.returned = Some(Components(c.args.destination))

\* January 1 and 2 of 2023 written with the default line ending
C17_Witness ==
    /\ cfg[1].start_year = 2023 /\ cfg[1].end_year = 2023
    /\ cfg[1].months = Some(<<1>>) /\ cfg[1].days = Some(<<1, 2>>)
    /\ IsNone(cfg[1].custom_pattern)
    /\ ~IsNone(last[1]) /\ Get(last[1]).op = "write" /\ Get(last[1]).status = "returned"
    /\ Get(last[1]).args.destination = <<"dates.txt">>
    /\ Get(last[1]).returned = Some(<<"dates.txt">>)
    /\ Get(last[1]).file =
         Some([path |-> <<"dates.txt">>,
               content |-> <<"2", "0", "2", "3", "0", "1", "0", "1", LF,
                             "2", "0", "2", "3", "0", "1", "0", "2", LF>>])

\* C18: write(destination, chunk_size=n) with a positive n is accepted and
\* writes every value of the sequence as a line of its own.
C18_ChunkSizeAccepted ==
    \A g \in G :
        (~IsNone(last[g]) /\ Get(last[g]).op = "write" /\ ~IsNone(Get(last[g]).args.chunk_size)) =>
            \E c \in {Get(last[g])} : \E w \in {Whole(g)} :
                /\ w.status = "done" => c.status = "returned"
                /\ ~IsNone(c.file)
                /\ Get(c.file).content = Lines(texts_of(w.values), EndingOf(c))

\* C19: with the days filter given as an empty list construction succeeds
\* (the year range and the months filter being valid) and the sequence is
\* empty whatever the year range and the months filter; write() creates the
\* destination with empty content.
C19_EmptyDaysYieldsNothing ==
    \A g \in G :
        (/\ cfg[g].days = Some(<<>>)
         /\ route[g] # "both"
         /\ cfg[g].start_year <= cfg[g].end_year
         /\ ~OutOfRange(cfg[g].months, 1, 12)) =>
            /\ obj[g].status # "error"
            /\ \A i \in G : owner[i] = g => out[i] = <<>> /\ iter[i].status # "raised"
            /\ (~IsNone(last[g]) /\ Get(last[g]).err # "TypeError") =>
                 /\ Get(last[g]).status = "returned"
                 /\ Get(last[g]).emitted = <<>>
                 /\ Get(last[g]).op = "write" =>
                      Get(last[g]).file =
                          Some([path |-> Components(Get(last[g]).args.destination),
                                content |-> <<>>])

\* every month of 9999..10000 with no day: the iterator ended without a
\* value and write() left an empty file
C19_Witness ==
    /\ cfg[1].days = Some(<<>>) /\ IsNone(cfg[1].months)
    /\ cfg[1].start_year = 9999 /\ cfg[1].end_year = 10000
    /\ iter[1].status = "done" /\ out[1] = <<>>
    /\ ~IsNone(last[1]) /\ Get(last[1]).op = "write" /\ Get(last[1]).status = "returned"
    /\ Get(last[1]).file = Some([path |-> <<"dates.txt">>, content |-> <<>>])

StrictlyAscending(s) == \A i \in 1..(Len(s) - 1) : s[i] < s[i + 1]

\* the stored filter holds the values supplied, each once, in ascending order
SortedUnique(stored, supplied) ==
    /\ IsNone(stored) <=> IsNone(supplied)
    /\ ~IsNone(stored) =>
         /\ StrictlyAscending(Get(stored))
         /\ Range(Get(stored)) = Range(Get(supplied))

\* C20: the stored months and days filters are duplicate-free and ascending
\* whatever order and multiplicity they were supplied in, and stay so through
\* any number of generation calls; a reversed generator emits its dates in
\* descending order while the stored filters stay ascending.
C20_StoredFiltersSortedUnique ==
    \A g \in G : obj[g].status = "ok" =>
        /\ SortedUnique(obj[g].config.months, cfg[g].months)
        /\ SortedUnique(obj[g].config.days, cfg[g].days)
        /\ \A i \in G : owner[i] = g =>
             \A k \in 1..(Len(out[i]) - 1) :
                 IF obj[g].config.reverse THEN Before(out[i][k + 1].ymd, out[i][k].ymd)
                 ELSE Before(out[i][k].ymd, out[i][k + 1].ymd)

\* filters supplied unsorted and repeated; a reversed iterator, a
\* generate_to_list() and a second iterator have run, and the stored filters
\* are ascending
C20_Witness ==
    /\ cfg[1].months = Some(<<2, 1, 2>>) /\ cfg[1].days = Some(<<31, 1, 31>>)
    /\ cfg[1].reverse
    /\ iter[1].status = "done" /\ Len(out[1]) = 3
    /\ iter[2].status = "suspended" /\ Len(out[2]) = 2
    /\ ~IsNone(last[1]) /\ Get(last[1]).status = "returned"
    /\ obj[1].config.months = Some(<<1, 2>>)
    /\ obj[1].config.days = Some(<<1, 31>>)
----------------------------------------------------------------------------
(* Normalisation: every field that normalized() reads varies (SpecNorm) *)

F_padded == <<" ", " ", "m", "m", " ">>

NormYearPairs == {<<2023, 2023>>, <<9999, 10000>>}

\* months and days given absent, empty, in normal form, unsorted and repeated
NormFilters ==
    {<<None, Some(<<>>)>>, <<None, Some(<<1>>)>>, <<Some(<<>>), Some(<<>>)>>,
     <<Some(<<>>), Some(<<1>>)>>, <<Some(<<2, 1, 2>>), Some(<<31, 1, 31>>)>>}

NormConfigs ==
    {Config(yp[1], yp[2], fmt, <<"-">>, pat, f[1], f[2], <<"a", "B">>, <<>>, cs, FALSE) :
        yp \in NormYearPairs, fmt \in FormatInputs \cup {F_padded}, pat \in PatternInputs,
        f \in NormFilters, cs \in CaseInputs}

\* generator 2 is given generator 1's fields, until it is rebuilt from the
\* configuration generator 1 stored
InitNorm ==
    /\ TypeStart
    /\ \E c \in NormConfigs :
         /\ cfg = [g \in G |-> c]
         /\ platform \in (IF Truthy(c.custom_pattern) /\ "%Q" \in Range(Get(c.custom_pattern))
                          THEN {"glibc", "msvcrt"} ELSE {"glibc"})
    /\ Separate

SpecNorm == InitNorm /\ [][NextNorm]_vars

\* C21: normalisation is idempotent: when c.normalized() succeeds, normalising
\* its result succeeds too and gives the same configuration field by field.
C21_NormalizationIdempotent ==
    (/\ obj[1].status = "ok"
     /\ route[2] = "config"
     /\ cfg[2] = obj[1].config
     /\ obj[2].status # "none") =>
        /\ obj[2].status = "ok"
        /\ \A f \in DOMAIN obj[1].config : obj[2].config[f] = obj[1].config[f]

\* a padded lower-case format, an upper-case case word and filters given
\* unsorted and repeated were normalised, and normalised again
C21_Witness ==
    /\ cfg[1].format = F_padded /\ obj[1].config.format = F_MM
    /\ cfg[1].case = Some(S_UPPER) /\ obj[1].config.case = Some(S_upper)
    /\ cfg[1].months = Some(<<2, 1, 2>>) /\ obj[1].config.months = Some(<<1, 2>>)
    /\ IsNone(cfg[1].custom_pattern)
    /\ route[2] = "config" /\ cfg[2] = obj[1].config
    /\ obj[2].status = "ok" /\ obj[2].config = obj[1].config

\* the months among the values iterator g has produced for year y
MonthsEmitted(g, y) == {out[g][k].ymd[2] : k \in {k \in DOMAIN out[g] : out[g][k].ymd[1] = y}}

\* C22: an empty months filter is treated like an absent one: construction
\* succeeds exactly as it does without the filter, the months iterated are
\* all 12, and the values are those generated without the filter, so a
\* completed run holds all 12 months of every year; an empty days filter
\* yields no value.
C22_EmptyMonthsMeansAllMonths ==
    \A g \in G : cfg[g].months = Some(<<>>) =>
        \E n \in {normalized([cfg[g] EXCEPT !.months = None], platform)} :
            /\ obj[g].status # "none" => obj[g].status = (IF n.ok THEN "ok" ELSE "error")
            /\ obj[g].status = "ok" =>
                 /\ months_of(obj[g].config) = AllMonths
                 /\ Follows(g, run_generate(n.config, None, platform))
                 /\ cfg[g].days = Some(<<>>) => out[g] = <<>>
                 /\ (iter[g].status = "done" /\ cfg[g].days # Some(<<>>)) =>
                      \A y \in cfg[g].start_year..cfg[g].end_year : MonthsEmitted(g, y) = 1..12

\* months=[] with days=[1] over 2023: the run ended with the first day of
\* each of the 12 months
C22_Witness ==
    /\ cfg[1].months = Some(<<>>) /\ cfg[1].days = Some(<<1>>)
    /\ cfg[1].start_year = 2023 /\ cfg[1].end_year = 2023
    /\ iter[1].status = "done"
    /\ Len(out[1]) = 12
    /\ MonthsEmitted(1, 2023) = 1..12

\* C23: with a non-empty custom pattern the symbolic format is never
\* compiled: construction has the outcome it has with the default format,
\* the token cache stays empty, and generation yields the values and ends
\* the way it does with the default format, whatever the format string is,
\* one that parse_format_spec rejects included.
C23_FormatIgnoredUnderPattern ==
    \A g \in G : Truthy(cfg[g].custom_pattern) =>
        \E n \in {normalized([cfg[g] EXCEPT !.format = DefaultFormat], platform)} :
            /\ obj[g].status # "none" =>
                 /\ obj[g].status = (IF n.ok THEN "ok" ELSE "error")
                 /\ obj[g].err = n.err
            /\ obj[g].status = "ok" =>
                 /\ IsNone(obj[g]._spec_tokens)
                 /\ Follows(g, run_generate(n.config, None, platform))

\* a format parse_format_spec rejects next to a pattern: the generator was
\* built and its run completed with pattern renderings
C23_Witness ==
    /\ cfg[1].format = F_QQ
    /\ ~parse_format_spec(obj[1].config.format).ok
    /\ cfg[1].custom_pattern = Some(P_db)
    /\ cfg[1].start_year = 2023
    /\ obj[1].status = "ok"
    /\ iter[1].status = "done"
    /\ Len(out[1]) = 3
    /\ IsNone(obj[1]._spec_tokens)
====
